---- MODULE Spec2Model ----
(***************************************************************************)
(* Model of the RAG chatbot backend: the search and outline tools, the     *)
(* tool manager (backend/search_tools.py), and the query turn that drives  *)
(* them (RAGSystem.query and AIGenerator.generate_response, known here     *)
(* through their tests and the specification), the session manager and the *)
(* HTTP endpoints (backend/tests/conftest.py).                             *)
(*                                                                         *)
(* Specifications, all over the same variables:                            *)
(*   ToolSpec     calls on a ToolManager holding the system's two tools    *)
(*   ManagerSpec  the same calls with the tests' tool doubles registered   *)
(*   Spec         query turns one after the other, the generator in detail *)
(*   FairSpec     Spec, with every started turn run to its end             *)
(*   GeneratorSpec  generate_response called directly, with tools offered  *)
(*                or not                                                   *)
(*   ApiSpec      HTTP requests and queries on sessions, the generator as  *)
(*                a collaborator                                           *)
(*   RaceSpec     two threads running a query each at the same time        *)
(*                                                                         *)
(* Python values are represented as follows.                               *)
(*   Optional[T]   the empty sequence None, or the one-element <<v>>       *)
(*   str           a TLA+ string; f-strings are concatenations (\o)        *)
(*   dict.get(k)   a record field holding an Optional value                *)
(*   dict (tools)  a sequence of [name, tool] entries in insertion order   *)
(***************************************************************************)
EXTENDS Integers, Sequences, FiniteSets, TLC

VARIABLES
    tools,          \* ToolManager.tools: name -> tool instance, insertion order
    last_sources,   \* tool instance -> its last_sources attribute
    call,           \* the last operation made on the tool manager, with its result
    pc,             \* position of the query turn in RAGSystem.query
    turn,           \* the locals of the running (or last) query turn
                    \* (RaceSpec: pc and turn map each thread to its own)
    session_manager,\* SessionManager: the histories by session id
    http            \* the HTTP request being handled (or last handled)

vars == <<tools, last_sources, call, pc, turn, session_manager, http>>

---------------------------------------------------------------------------
(* Bounds of the model *)

\* longest hit list the vector store returns for one search
MaxHits == 2
\* most content blocks in one model response
MaxBlocks == 2

---------------------------------------------------------------------------
(* Python values *)

None == <<>>

Some(v) == <<v>>

\* Python truthiness of an Optional[str]: None and "" are falsy
TruthyStr(s) == s # None /\ s[1] # ""

\* Python truthiness of an Optional[int]: None and 0 are falsy
TruthyInt(n) == n # None /\ n[1] # 0

\* str.join
RECURSIVE join(_, _)
join(sep, parts) ==
    IF parts = <<>> THEN ""
    ELSE IF Len(parts) = 1 THEN parts[1]
    ELSE parts[1] \o sep \o join(sep, Tail(parts))

\* all sequences over S of length at most n without repeated elements
RECURSIVE DistinctSeqs(_, _)
DistinctSeqs(S, n) ==
    IF n = 0 THEN {<<>>}
    ELSE LET shorter == DistinctSeqs(S, n - 1)
         IN shorter \cup
            {Append(p[1], p[2]) :
                p \in {q \in shorter \X S :
                          /\ Len(q[1]) = n - 1
                          /\ \A i \in 1..Len(q[1]) : q[1][i] # q[2]}}

Min(a, b) == IF a <= b THEN a ELSE b

---------------------------------------------------------------------------
(* The vector store, as the tools see it.  The store is a collaborator:    *)
(* what it answers to one call is a choice among the values below.         *)

Queries == {"what is MCP"}

CourseNames == {None, Some("MCP")}

LessonNumbers == {None, Some(0), Some(2)}

\* the chunks the store holds: document text and chunk metadata
Corpus ==
    { [doc |-> "MCP connects models to tools",
       meta |-> [course_title |-> Some("MCP"), lesson_number |-> Some(1),
                 lesson_link |-> Some("http://mcp/1")]],
      [doc |-> "Welcome to the course",
       meta |-> [course_title |-> Some("MCP"), lesson_number |-> Some(0),
                 lesson_link |-> None]],
      [doc |-> "Untitled notes",
       meta |-> [course_title |-> None, lesson_number |-> None,
                 lesson_link |-> Some("")]] }

SearchErrors == {"No course found matching 'MCP'"}

\* SearchResults: parallel documents and metadata, and an optional error
SearchResults(hits, error) ==
    [documents |-> [i \in 1..Len(hits) |-> hits[i].doc],
     metadata |-> [i \in 1..Len(hits) |-> hits[i].meta],
     error |-> error]

\* every value VectorStore.search may hand back
SearchOutcomes ==
    {SearchResults(hits, error) :
        hits \in DistinctSeqs(Corpus, MaxHits),
        error \in {None} \cup {Some(e) : e \in SearchErrors}}

\* SearchResults.is_empty
is_empty(results) == Len(results.documents) = 0

\* VectorStore._resolve_course_name: the canonical title, or None
ResolveOutcomes == {None, Some("MCP: Build Rich-Context AI Apps")}

\* course_catalog.get followed by json.loads of lessons_json: no metadata,
\* an exception, or the catalog entry
CatalogOutcomes ==
    { [kind |-> "none"],
      [kind |-> "raise", message |-> "Expecting value: line 1 column 1 (char 0)"],
      [kind |-> "raise", message |-> "'NoneType' object has no attribute 'get'"],
      [kind |-> "entry", title |-> "MCP: Build Rich-Context AI Apps",
       course_link |-> Some("http://mcp"),
       lessons |-> << [lesson_number |-> 1, lesson_title |-> "Why MCP"],
                      [lesson_number |-> 0, lesson_title |-> "Introduction"] >>],
      [kind |-> "entry", title |-> "MCP: Build Rich-Context AI Apps",
       course_link |-> None, lessons |-> <<>>] }

---------------------------------------------------------------------------
(* CourseSearchTool *)

\* the tool instances of the system; only the search tool has last_sources
CourseSearchTool == "CourseSearchTool"

CourseOutlineTool == "CourseOutlineTool"

ToolInstances == {CourseSearchTool, CourseOutlineTool}

\* the doubles of a source-tracking tool that the manager's tests register:
\* two instances, both named "search_tool", each built holding one source
MockSearchTool == "mock_search_tool of test_get_last_sources"

MockSearchTool2 == "mock_search_tool of test_reset_sources"

TestDoubles == {MockSearchTool, MockSearchTool2}

\* tools that register_tool turns away: one whose definition has no "name"
\* key and one whose definition has the name ""
NamelessTool == "tool whose definition has no name"

EmptyNameTool == "tool whose definition has an empty name"

UnnamedTools == {NamelessTool, EmptyNameTool}

\* the last_sources a double is constructed with
MockSources(tool) ==
    IF tool = MockSearchTool
    THEN <<[text |-> "Test source", link |-> Some("http://test.com")]>>
    ELSE <<[text |-> "Test source", link |-> None]>>

\* Tool.get_tool_definition()["name"]
get_tool_definition(tool) ==
    IF tool = CourseSearchTool
    THEN [name |-> Some("search_course_content")]
    ELSE IF tool = CourseOutlineTool
    THEN [name |-> Some("get_course_outline")]
    ELSE IF tool = NamelessTool THEN [name |-> None]
    ELSE IF tool = EmptyNameTool THEN [name |-> Some("")]
    ELSE [name |-> Some("search_tool")]

\* meta.get("course_title", "unknown")
course_title(meta) ==
    IF meta.course_title = None THEN "unknown" ELSE meta.course_title[1]

\* a lesson suffix written only for a truthy lesson number
lesson_suffix_Truthy(meta) ==
    IF TruthyInt(meta.lesson_number)
    THEN " - Lesson " \o ToString(meta.lesson_number[1])
    ELSE ""

\* the part of header and source text added when lesson_num is not None
lesson_suffix(meta) ==
    IF meta.lesson_number # None
    THEN " - Lesson " \o ToString(meta.lesson_number[1])
    ELSE ""

\* header = f"[{course_title}" ... "]"
header(meta) == "[" \o course_title(meta) \o lesson_suffix(meta) \o "]"

\* a source that carries the metadata's lesson link as it is, empty or not
source_obj_RawLink(meta) ==
    [text |-> course_title(meta) \o lesson_suffix(meta),
     link |-> meta.lesson_link]

\* source_obj = {"text": source_text, "link": lesson_link if lesson_link else None}
source_obj(meta) ==
    [text |-> course_title(meta) \o lesson_suffix(meta),
     link |-> IF TruthyStr(meta.lesson_link) THEN meta.lesson_link ELSE None]

\* a formatter that records a source only for the hits that have a link
_format_results_LinkedOnly(results) ==
    LET n == Min(Len(results.documents), Len(results.metadata))
        linked == SelectSeq(results.metadata, LAMBDA m : TruthyStr(m.lesson_link))
    IN [ret |-> join("\n\n", [i \in 1..n |->
                    header(results.metadata[i]) \o "\n" \o results.documents[i]]),
        last_sources |-> [i \in 1..Len(linked) |-> source_obj(linked[i])]]

\* CourseSearchTool._format_results: the text returned and the new last_sources
_format_results(results) ==
    LET n == Min(Len(results.documents), Len(results.metadata))
    IN [ret |-> join("\n\n", [i \in 1..n |->
                    header(results.metadata[i]) \o "\n" \o results.documents[i]]),
        last_sources |-> [i \in 1..n |-> source_obj(results.metadata[i])]]

\* the filter_info of the "no content" message
filter_info(course_name, lesson_number) ==
    (IF TruthyStr(course_name)
     THEN " in course '" \o course_name[1] \o "'" ELSE "")
    \o
    (IF TruthyInt(lesson_number)
     THEN " in lesson " \o ToString(lesson_number[1]) ELSE "")

\* an execute that tests for emptiness before it tests for an error
CourseSearchTool_execute_EmptyFirst(self_last_sources, kwargs, results) ==
    IF is_empty(results)
    THEN [ret |-> "No relevant content found"
                    \o filter_info(kwargs.course_name, kwargs.lesson_number)
                    \o ".",
          last_sources |-> self_last_sources]
    ELSE IF TruthyStr(results.error)
    THEN [ret |-> results.error[1], last_sources |-> self_last_sources]
    ELSE _format_results(results)

\* an execute that adds the sources of its hits to those it already holds
CourseSearchTool_execute_Accumulate(self_last_sources, kwargs, results) ==
    IF TruthyStr(results.error)
    THEN [ret |-> results.error[1], last_sources |-> self_last_sources]
    ELSE IF is_empty(results)
    THEN [ret |-> "No relevant content found"
                    \o filter_info(kwargs.course_name, kwargs.lesson_number)
                    \o ".",
          last_sources |-> self_last_sources]
    ELSE [ret |-> _format_results(results).ret,
          last_sources |-> self_last_sources
                              \o _format_results(results).last_sources]

\* CourseSearchTool.execute, given what store.search returned: the text
\* returned and the value of self.last_sources afterwards
CourseSearchTool_execute(self_last_sources, kwargs, results) ==
    IF TruthyStr(results.error)
    THEN [ret |-> results.error[1], last_sources |-> self_last_sources]
    ELSE IF is_empty(results)
    THEN [ret |-> "No relevant content found"
                    \o filter_info(kwargs.course_name, kwargs.lesson_number)
                    \o ".",
          last_sources |-> self_last_sources]
    ELSE _format_results(results)

---------------------------------------------------------------------------
(* CourseOutlineTool *)

\* an outline that lists the lessons in the order the catalog stores them
sorted_AsStored(lessons) == lessons

\* sorted(lessons, key=lesson_number): a stable insertion sort
RECURSIVE sorted(_)
sorted(lessons) ==
    IF lessons = <<>> THEN <<>>
    ELSE LET rest == sorted(Tail(lessons))
             x == Head(lessons)
             k == Cardinality({i \in 1..Len(rest) :
                                  rest[i].lesson_number < x.lesson_number})
         IN SubSeq(rest, 1, k) \o <<x>> \o SubSeq(rest, k + 1, Len(rest))

\* how a block of code ends: with a value returned or an exception raised
Returns(value) == [kind |-> "return", value |-> value, message |-> ""]

Raises(message) == [kind |-> "raise", value |-> "", message |-> message]

\* the try block of CourseOutlineTool.execute: fetching the catalog entry,
\* parsing it and formatting the outline
outline_try(resolved, catalog) ==
    IF catalog.kind = "none"
    THEN Returns("No course metadata found for '" \o resolved[1] \o "'")
    ELSE IF catalog.kind = "raise"
    THEN Raises(catalog.message)
    ELSE LET lessons == sorted(catalog.lessons)
             outline_parts ==
                <<"Course: " \o catalog.title>>
                \o (IF TruthyStr(catalog.course_link)
                    THEN <<"Course Link: " \o catalog.course_link[1]>> ELSE <<>>)
                \o (IF lessons # <<>>
                    THEN <<"\nLessons (" \o ToString(Len(lessons)) \o " total):">>
                         \o [i \in 1..Len(lessons) |->
                               "  Lesson " \o ToString(lessons[i].lesson_number)
                               \o ": " \o lessons[i].lesson_title]
                    ELSE <<"\nNo lessons found for this course.">>)
         IN Returns(join("\n", outline_parts))

\* an except clause that lets the exception pass
except_Exception_Reraise(outcome) == outcome

\* except Exception as e: return f"Error retrieving course outline: {str(e)}"
except_Exception(outcome) ==
    IF outcome.kind = "raise"
    THEN Returns("Error retrieving course outline: " \o outcome.message)
    ELSE outcome

\* CourseOutlineTool.execute, given the resolved title and the catalog's
\* answer: how the call ends
CourseOutlineTool_execute(kwargs, resolved, catalog) ==
    IF ~TruthyStr(resolved)
    THEN Returns("No course found matching '" \o kwargs.course_name[1] \o "'")
    ELSE except_Exception(outline_try(resolved, catalog))

---------------------------------------------------------------------------
(* ToolManager *)

\* tool_name in self.tools
registered(reg, tool_name) == \E i \in 1..Len(reg) : reg[i].name = tool_name

\* self.tools[tool_name]
lookup(reg, tool_name) ==
    reg[CHOOSE i \in 1..Len(reg) : reg[i].name = tool_name].tool

\* hasattr(tool, "last_sources")
hasattr_last_sources(sources, tool) == tool \in DOMAIN sources

\* a search call that passes on only the filters that are truthy
store_search_calls_TruthyFilters(kwargs) ==
    <<[query |-> kwargs.query,
       course_name |-> IF TruthyStr(kwargs.course_name)
                       THEN kwargs.course_name ELSE None,
       lesson_number |-> IF TruthyInt(kwargs.lesson_number)
                         THEN kwargs.lesson_number ELSE None]>>

\* the self.store.search calls CourseSearchTool.execute makes, with their
\* keyword arguments
store_search_calls(kwargs) ==
    <<[query |-> kwargs.query, course_name |-> kwargs.course_name,
       lesson_number |-> kwargs.lesson_number]>>

\* tool.execute(**kwargs) of the tool instance: text returned, sources
\* afterwards, the store.search calls made, the SearchResults object as
\* the tool leaves it (the tools only read it), and the exception that
\* left the call, if any
Tool_execute(tool, sources, kwargs, store) ==
    IF tool = CourseSearchTool
    THEN LET r == CourseSearchTool_execute(sources[tool], kwargs, store.results)
         IN [ret |-> r.ret,
             last_sources |-> [sources EXCEPT ![tool] = r.last_sources],
             searched |-> store_search_calls(kwargs),
             results |-> store.results, raised |-> None]
    ELSE IF tool = CourseOutlineTool
    THEN LET o == CourseOutlineTool_execute(kwargs, store.resolved, store.catalog)
         IN [ret |-> o.value,
             last_sources |-> sources, searched |-> <<>>,
             results |-> store.results,
             raised |-> IF o.kind = "raise" THEN Some(o.message) ELSE None]
    ELSE [ret |-> "Tool executed successfully", last_sources |-> sources,
          searched |-> <<>>, results |-> store.results, raised |-> None]

\* a dispatch that ignores the name once it is known to be registered
execute_tool_FirstRegistered(reg, sources, tool_name, kwargs, store) ==
    IF ~registered(reg, tool_name)
    THEN [ret |-> "Tool '" \o tool_name \o "' not found",
          invoked |-> <<>>,
          last_sources |-> sources]
    ELSE LET tool == reg[1].tool
             r == Tool_execute(tool, sources, kwargs, store)
         IN [ret |-> r.ret,
             invoked |-> <<[tool |-> tool, kwargs |-> kwargs, result |-> r.ret,
                            searched |-> r.searched, results |-> r.results,
                            raised |-> r.raised]>>,
             last_sources |-> r.last_sources]

\* an execute_tool that clears every tool's sources when the name is unknown
execute_tool_ResetOnMiss(reg, sources, tool_name, kwargs, store) ==
    IF ~registered(reg, tool_name)
    THEN [ret |-> "Tool '" \o tool_name \o "' not found",
          invoked |-> <<>>,
          last_sources |-> [t \in DOMAIN sources |-> <<>>]]
    ELSE LET tool == lookup(reg, tool_name)
             r == Tool_execute(tool, sources, kwargs, store)
         IN [ret |-> r.ret,
             invoked |-> <<[tool |-> tool, kwargs |-> kwargs, result |-> r.ret,
                            searched |-> r.searched, results |-> r.results,
                            raised |-> r.raised]>>,
             last_sources |-> r.last_sources]

\* ToolManager.execute_tool: the text returned, the tool executions made
\* (tool instance, arguments, the tool's own result), and every tool's
\* last_sources afterwards
execute_tool(reg, sources, tool_name, kwargs, store) ==
    IF ~registered(reg, tool_name)
    THEN [ret |-> "Tool '" \o tool_name \o "' not found",
          invoked |-> <<>>,
          last_sources |-> sources]
    ELSE LET tool == lookup(reg, tool_name)
             r == Tool_execute(tool, sources, kwargs, store)
         IN [ret |-> r.ret,
             invoked |-> <<[tool |-> tool, kwargs |-> kwargs, result |-> r.ret,
                            searched |-> r.searched, results |-> r.results,
                            raised |-> r.raised]>>,
             last_sources |-> r.last_sources]

\* a registry that keeps the tool first registered under a name
register_tool_KeepFirst(reg, tool) ==
    LET tool_name == get_tool_definition(tool).name
    IN IF ~TruthyStr(tool_name) \/ registered(reg, tool_name[1]) THEN reg
       ELSE Append(reg, [name |-> tool_name[1], tool |-> tool])

\* a registry that stores a tool without a name under the empty name
register_tool_StoreUnnamed(reg, tool) ==
    LET tool_name == get_tool_definition(tool).name
        key == IF TruthyStr(tool_name) THEN tool_name[1] ELSE ""
    IN IF registered(reg, key)
       THEN [i \in 1..Len(reg) |->
                IF reg[i].name = key
                THEN [name |-> key, tool |-> tool] ELSE reg[i]]
       ELSE Append(reg, [name |-> key, tool |-> tool])

\* the ValueError register_tool raises, None when it returns
register_tool_raises(tool) ==
    IF ~TruthyStr(get_tool_definition(tool).name)
    THEN Some("Tool must have a 'name' in its definition")
    ELSE None

\* ToolManager.register_tool: the registry afterwards (a ValueError leaves it)
register_tool(reg, tool) ==
    LET tool_name == get_tool_definition(tool).name
    IN IF ~TruthyStr(tool_name) THEN reg
       ELSE IF registered(reg, tool_name[1])
       THEN [i \in 1..Len(reg) |->
                IF reg[i].name = tool_name[1]
                THEN [name |-> tool_name[1], tool |-> tool] ELSE reg[i]]
       ELSE Append(reg, [name |-> tool_name[1], tool |-> tool])

\* ToolManager.get_tool_definitions: one definition per entry of self.tools
get_tool_definitions(reg) ==
    [i \in 1..Len(reg) |-> get_tool_definition(reg[i].tool)]

\* ToolManager.get_last_sources: the first non-empty last_sources, in
\* registration order
get_last_sources(reg, sources) ==
    LET holders == {i \in 1..Len(reg) :
                       /\ hasattr_last_sources(sources, reg[i].tool)
                       /\ sources[reg[i].tool] # <<>>}
    IN IF holders = {} THEN <<>>
       ELSE sources[reg[CHOOSE i \in holders : \A j \in holders : i <= j].tool]

\* a reset that stops at the first registered tool that tracks sources
reset_sources_FirstOnly(reg, sources) ==
    LET trackers == {i \in 1..Len(reg) :
                        hasattr_last_sources(sources, reg[i].tool)}
    IN IF trackers = {} THEN sources
       ELSE [sources EXCEPT
               ![reg[CHOOSE i \in trackers : \A j \in trackers : i <= j].tool]
                   = <<>>]

\* ToolManager.reset_sources: every registered tool's last_sources afterwards
reset_sources(reg, sources) ==
    [t \in DOMAIN sources |->
        IF \E i \in 1..Len(reg) :
              reg[i].tool = t /\ hasattr_last_sources(sources, reg[i].tool)
        THEN <<>> ELSE sources[t]]

---------------------------------------------------------------------------
(* Calls made on the tool manager directly, as the unit tests make them *)

ToolNames == {"search_course_content", "get_course_outline", "nonexistent_tool"}

\* the keyword arguments the model's schema allows for a tool name
KwargsFor(tool_name) ==
    IF tool_name = "search_course_content"
    THEN [query : {Some(q) : q \in Queries}, course_name : CourseNames,
          lesson_number : LessonNumbers]
    ELSE IF tool_name = "get_course_outline"
    THEN [query : {None}, course_name : {Some("MCP")}, lesson_number : {None}]
    ELSE [query : {Some(q) : q \in Queries}, course_name : {None},
          lesson_number : {None}]

NoResults == SearchResults(<<>>, None)

\* the store's answers that matter to a call of the named tool
StoreAnswersFor(tool_name) ==
    IF tool_name = "search_course_content"
    THEN [results : SearchOutcomes, resolved : {None}, catalog : {[kind |-> "none"]}]
    ELSE IF tool_name = "get_course_outline"
    THEN [results : {NoResults}, resolved : ResolveOutcomes, catalog : CatalogOutcomes]
    ELSE [results : {NoResults}, resolved : {None}, catalog : {[kind |-> "none"]}]

\* SessionManager(): no session yet
NoSessions == [sessions |-> [s \in {} |-> <<>>], session_counter |-> 0]

\* no HTTP request is being handled: the call was made directly
NoRequest ==
    [endpoint |-> "",       \* "POST /api/query" or "GET /api/courses"
     request |-> None,      \* the request body
     session_id |-> None,   \* the handler's session_id
     created |-> 0,         \* log: create_session calls made for the request
     pending |-> FALSE,     \* the handler has not answered yet
     raised |-> None,       \* log: the exception the handler caught
     status_code |-> 0,     \* of the response
     response |-> None,     \* the QueryResponse or CourseStats body
     detail |-> None]       \* of the HTTPException

\* the locals of a query turn before anything has happened
Idle ==
    [query |-> None,        \* the user's question
     session_id |-> None,   \* the session the question belongs to
     history |-> None,      \* the conversation history read for the turn
     generated |-> <<>>,    \* log: the generate_response calls, arguments
     exchanged |-> <<>>,    \* log: the add_exchange calls, with arguments
     offered |-> None,      \* the tools argument of generate_response
     tool_manager |-> FALSE,\* whether a tool manager was passed with it
     request |-> None,      \* log: the parameters of the first model request
     calls |-> 0,           \* client.messages.create calls made so far
     first |-> None,        \* the first response
     i |-> 1,               \* next content block of the first response
     tool_results |-> <<>>, \* tool results collected for the follow-up call
     executions |-> <<>>,   \* log: the execute_tool calls made, in order
     searches |-> <<>>,     \* log: what the store answered to each search run
     sent |-> None,         \* log: the tool results sent with the follow-up call
     second |-> None,       \* the follow-up response
     api_error |-> None,    \* log: the error the client raised
     answer |-> None,       \* the text generate_response returned
     sources |-> <<>>,      \* the sources query returned
     error |-> None]        \* the error query raised

\* ToolManager() and the tool instances, nothing registered yet
ToolInit ==
    /\ tools = <<>>
    /\ last_sources = [t \in {CourseSearchTool} |-> <<>>]
    /\ call = [op |-> "init"]
    /\ pc = "idle"
    /\ turn = Idle
    /\ session_manager = NoSessions
    /\ http = NoRequest

\* tool_manager.register_tool(tool)
RegisterTool(tool) ==
    /\ tools' = register_tool(tools, tool)
    /\ call' = [op |-> "register_tool", tool |-> tool,
                raised |-> register_tool_raises(tool)]
    /\ UNCHANGED <<last_sources, pc, turn, session_manager, http>>

\* tool_manager.execute_tool(tool_name, **kwargs)
ExecuteTool(tool_name, kwargs, store) ==
    LET r == execute_tool(tools, last_sources, tool_name, kwargs, store)
    IN /\ last_sources' = r.last_sources
       /\ call' = [op |-> "execute_tool", tool_name |-> tool_name,
                   kwargs |-> kwargs, store |-> store, ret |-> r.ret,
                   invoked |-> r.invoked]
       /\ UNCHANGED <<tools, pc, turn, session_manager, http>>

\* tool_manager.get_last_sources()
GetLastSources ==
    /\ call' = [op |-> "get_last_sources",
                ret |-> get_last_sources(tools, last_sources)]
    /\ UNCHANGED <<tools, last_sources, pc, turn, session_manager, http>>

\* tool_manager.reset_sources()
ResetSources ==
    /\ last_sources' = reset_sources(tools, last_sources)
    /\ call' = [op |-> "reset_sources"]
    /\ UNCHANGED <<tools, pc, turn, session_manager, http>>

ToolNext ==
    \/ \E tool \in ToolInstances : RegisterTool(tool)
    \/ \E tool_name \in ToolNames :
          \E kwargs \in KwargsFor(tool_name), store \in StoreAnswersFor(tool_name) :
             ExecuteTool(tool_name, kwargs, store)
    \/ GetLastSources
    \/ ResetSources

ToolSpec == ToolInit /\ [][ToolNext]_vars

---------------------------------------------------------------------------
(* The language model, as the generator sees it *)

StopReasons == {"end_turn", "max_tokens", "tool_use"}

ApiErrors == {"Connection timeout"}

TextBlock(text) ==
    [type |-> "text", text |-> text, name |-> "", input |-> None]

ToolUseBlock(name, input) ==
    [type |-> "tool_use", text |-> "", name |-> name, input |-> Some(input)]

\* the tool requests the model makes
ToolUses ==
    { ToolUseBlock("search_course_content",
          [query |-> Some("what is MCP"), course_name |-> None,
           lesson_number |-> None]),
      ToolUseBlock("search_course_content",
          [query |-> Some("what is MCP"), course_name |-> Some("MCP"),
           lesson_number |-> Some(0)]),
      ToolUseBlock("get_course_outline",
          [query |-> None, course_name |-> Some("MCP"), lesson_number |-> None]),
      ToolUseBlock("nonexistent_tool",
          [query |-> Some("what is MCP"), course_name |-> None,
           lesson_number |-> None]) }

SeqsUpTo(S, n) == UNION {[1..k -> S] : k \in 0..n}

\* a response that asks for tools holds at least one tool_use block
ToolUseContents ==
    {c \in SeqsUpTo(ToolUses \cup {TextBlock("Let me look that up.")}, MaxBlocks) :
        \E k \in 1..Len(c) : c[k].type = "tool_use"}

\* a response cut off at the token limit after it began a tool request
TruncatedResponse ==
    [stop_reason |-> "max_tokens",
     content |-> <<TextBlock("Let me look that up."),
                   ToolUseBlock("search_course_content",
                       [query |-> Some("what is MCP"), course_name |-> None,
                        lesson_number |-> None])>>]

\* what the first client.messages.create call may return
FirstResponses ==
    {[stop_reason |-> s, content |-> <<TextBlock("MCP is a protocol.")>>] :
        s \in StopReasons \ {"tool_use"}}
    \cup {[stop_reason |-> "tool_use", content |-> c] : c \in ToolUseContents}
    \cup {TruncatedResponse}

\* what the follow-up call may return; it may itself ask for a tool
FollowUpResponses ==
    {[stop_reason |-> s, content |-> <<TextBlock("According to the course, ...")>>] :
        s \in StopReasons \ {"tool_use"}}
    \cup {[stop_reason |-> "tool_use",
           content |-> <<TextBlock("I need one more search."), b>>] : b \in ToolUses}

\* the store's answers to the tools run inside a query turn
TurnStoreAnswersFor(tool_name) ==
    {a \in StoreAnswersFor(tool_name) :
        /\ Len(a.results.documents) <= 1
        /\ (a.results.error # None => a.results.documents = <<>>)}

---------------------------------------------------------------------------
(* SessionManager: conversation histories by session id *)

\* config.MAX_HISTORY: the most exchanges a history keeps
MaxHistory == 2
\* the most sessions create_session is asked for
MaxSessions == 1

\* seq[-n:]
Last(seq, n) ==
    IF Len(seq) <= n THEN seq ELSE SubSeq(seq, Len(seq) - n + 1, Len(seq))

\* sessions[session_id] = history
Put(sessions, session_id, history) ==
    [s \in DOMAIN sessions \cup {session_id} |->
        IF s = session_id THEN history ELSE sessions[s]]

\* SessionManager.create_session: the new id and the manager afterwards
create_session(sm) ==
    LET session_id == "session_" \o ToString(sm.session_counter + 1)
    IN [session_id |-> session_id,
        session_manager |->
            [sessions |-> Put(sm.sessions, session_id, <<>>),
             session_counter |-> sm.session_counter + 1]]

\* SessionManager.get_conversation_history: the history as text for the
\* prompt, None for an unknown session and for an empty history
get_conversation_history(sm, session_id) ==
    IF session_id \notin DOMAIN sm.sessions THEN None
    ELSE IF sm.sessions[session_id] = <<>> THEN None
    ELSE LET h == sm.sessions[session_id]
         IN Some(join("\n", [i \in 1..Len(h) |->
                    "User: " \o h[i].user \o "\nAssistant: " \o h[i].assistant]))

\* a session manager that stops recording once the history is full
add_exchange_KeepOldest(sm, session_id, user_message, assistant_message) ==
    LET old == IF session_id \in DOMAIN sm.sessions
               THEN sm.sessions[session_id] ELSE <<>>
        new == Append(old, [user |-> user_message,
                            assistant |-> assistant_message])
    IN [sm EXCEPT !.sessions =
           Put(@, session_id, SubSeq(new, 1, Min(Len(new), MaxHistory)))]

\* SessionManager.add_exchange: the manager afterwards; the session is
\* created if absent and the history trimmed to its most recent exchanges
add_exchange(sm, session_id, user_message, assistant_message) ==
    LET old == IF session_id \in DOMAIN sm.sessions
               THEN sm.sessions[session_id] ELSE <<>>
        new == Append(old, [user |-> user_message,
                            assistant |-> assistant_message])
    IN [sm EXCEPT !.sessions = Put(@, session_id, Last(new, MaxHistory))]

---------------------------------------------------------------------------
(* AIGenerator.generate_response and RAGSystem.query *)

\* a generator that takes every stop reason but "end_turn" for a tool request
requests_tools_NotEndTurn(response) == response.stop_reason # "end_turn"

\* the stop reason that starts the tool round
requests_tools(response) == response.stop_reason = "tool_use"

\* a generator that calls the model again when the follow-up asks for a tool
after_follow_up_AnotherRound(response) ==
    IF response.stop_reason = "tool_use" THEN "follow_up" ELSE "get_sources"

\* where generate_response goes after the follow-up response: it returns
after_follow_up(response) == "get_sources"

\* a query that wraps the generator's error in one of its own
propagate_Wrapped(e) == "Query failed: " \o e

\* what query raises when generate_response raised e
propagate(e) == e

\* the parameters of the first model request: tools and tool_choice are
\* added when the caller passed tool definitions
api_params(offered) ==
    IF offered # None /\ offered[1] # <<>>
    THEN [tools |-> offered, tool_choice |-> Some("auto")]
    ELSE [tools |-> None, tool_choice |-> None]

\* RAGSystem.__init__: both tools registered, in this order
Init ==
    /\ tools = register_tool(register_tool(<<>>, CourseSearchTool), CourseOutlineTool)
    /\ last_sources = [t \in {CourseSearchTool} |-> <<>>]
    /\ call = [op |-> "init"]
    /\ pc = "idle"
    /\ turn = Idle
    /\ session_manager = NoSessions
    /\ http = NoRequest

\* rag_system.query(query) is called
Query(query) ==
    /\ pc \in {"idle", "done", "raised"}
    /\ pc' = "first_call"
    /\ turn' = [Idle EXCEPT !.query = Some(query),
                            !.offered = Some(get_tool_definitions(tools)),
                            !.tool_manager = TRUE]
    /\ UNCHANGED <<tools, last_sources, call, session_manager, http>>

\* ai_generator.generate_response(query, tools=offered, tool_manager=...)
\* is called directly
generate_response(query, offered, tool_manager) ==
    /\ pc \in {"idle", "get_sources", "raised"}
    /\ pc' = "first_call"
    /\ turn' = [Idle EXCEPT !.query = Some(query), !.offered = offered,
                            !.tool_manager = tool_manager]
    /\ UNCHANGED <<tools, last_sources, call, session_manager, http>>

\* the first client.messages.create returns
FirstCallReturns(response) ==
    /\ pc = "first_call"
    /\ (\E k \in 1..Len(response.content) :
            response.content[k].type = "tool_use")
          => api_params(turn.offered).tools # None
    /\ IF requests_tools(response) /\ turn.tool_manager
       THEN /\ pc' = "tools"
            /\ turn' = [turn EXCEPT !.calls = @ + 1, !.first = Some(response),
                                    !.request = Some(api_params(turn.offered))]
       ELSE /\ pc' = "get_sources"
            /\ turn' = [turn EXCEPT !.calls = @ + 1, !.first = Some(response),
                                    !.request = Some(api_params(turn.offered)),
                                    !.answer = Some(response.content[1].text)]
    /\ UNCHANGED <<tools, last_sources, call, session_manager, http>>

\* a client.messages.create raises: nothing catches it up to query's caller
CallRaises(e) ==
    /\ pc \in {"first_call", "follow_up"}
    /\ pc' = "raised"
    /\ turn' = [turn EXCEPT !.calls = @ + 1, !.api_error = Some(e),
                            !.sent = IF pc = "follow_up"
                                     THEN Some(turn.tool_results) ELSE @,
                            !.request = IF pc = "first_call"
                                        THEN Some(api_params(turn.offered))
                                        ELSE @,
                            !.error = Some(propagate(e))]
    /\ UNCHANGED <<tools, last_sources, call, session_manager, http>>

\* the tool round runs the tool a tool_use block asks for
ExecuteBlock ==
    /\ pc = "tools"
    /\ turn.i <= Len(turn.first[1].content)
    /\ turn.first[1].content[turn.i].type = "tool_use"
    /\ \E store \in TurnStoreAnswersFor(turn.first[1].content[turn.i].name) :
        LET block == turn.first[1].content[turn.i]
            r == execute_tool(tools, last_sources, block.name, block.input[1], store)
        IN /\ last_sources' = r.last_sources
           /\ turn' = [turn EXCEPT
                 !.i = @ + 1,
                 !.tool_results =
                    Append(@, [tool_use_id |-> turn.i, content |-> r.ret]),
                 !.executions =
                    Append(@, [block |-> turn.i, name |-> block.name,
                               input |-> block.input[1],
                               invoked |-> r.invoked, ret |-> r.ret,
                               calls |-> turn.calls]),
                 !.searches =
                    IF r.invoked # <<>> /\ r.invoked[1].tool = CourseSearchTool
                    THEN Append(@, store.results) ELSE @]
    /\ pc' = IF turn.i = Len(turn.first[1].content) THEN "follow_up" ELSE "tools"
    /\ UNCHANGED <<tools, call, session_manager, http>>

\* the tool round passes over a content block that is not a tool_use
SkipBlock ==
    /\ pc = "tools"
    /\ turn.i <= Len(turn.first[1].content)
    /\ turn.first[1].content[turn.i].type # "tool_use"
    /\ turn' = [turn EXCEPT !.i = @ + 1]
    /\ pc' = IF turn.i = Len(turn.first[1].content) THEN "follow_up" ELSE "tools"
    /\ UNCHANGED <<tools, last_sources, call, session_manager, http>>

\* the follow-up client.messages.create returns
FollowUpReturns(response) ==
    /\ pc = "follow_up"
    /\ turn.calls < 4        \* caps the counter; the turn itself stops at 2
    /\ pc' = after_follow_up(response)
    /\ turn' = [turn EXCEPT !.calls = @ + 1, !.sent = Some(turn.tool_results),
                            !.second = Some(response),
                            !.answer = Some(response.content[1].text)]
    /\ UNCHANGED <<tools, last_sources, call, session_manager, http>>

\* query: sources = self.tool_manager.get_last_sources()
QueryGetSources ==
    /\ pc = "get_sources"
    /\ pc' = "reset_sources"
    /\ turn' = [turn EXCEPT !.sources = get_last_sources(tools, last_sources)]
    /\ UNCHANGED <<tools, last_sources, call, session_manager, http>>

\* query: self.tool_manager.reset_sources()
QueryResetSources ==
    /\ pc = "reset_sources"
    /\ pc' = "add_exchange"
    /\ last_sources' = reset_sources(tools, last_sources)
    /\ UNCHANGED <<tools, call, turn, session_manager, http>>

\* a query that records the prompt sent to the model instead of the question
exchange_text_Prompt(query) ==
    "Answer this question about course materials: " \o query

\* the user message of the exchange recorded for a question
exchange_text(query) == query

\* query: if session_id: add_exchange(session_id, query, response); then
\* return (response, sources)
QueryAddExchange ==
    /\ pc = "add_exchange"
    /\ pc' = "done"
    /\ IF TruthyStr(turn.session_id)
       THEN /\ session_manager' =
                  add_exchange(session_manager, turn.session_id[1],
                               exchange_text(turn.query[1]), turn.answer[1])
            /\ turn' = [turn EXCEPT !.exchanged =
                          Append(@, [session_id |-> turn.session_id[1],
                                     user |-> exchange_text(turn.query[1]),
                                     assistant |-> turn.answer[1]])]
       ELSE UNCHANGED <<session_manager, turn>>
    /\ UNCHANGED <<tools, last_sources, call, http>>

\* one step of the running query turn
TurnStep ==
    \/ \E response \in FirstResponses : FirstCallReturns(response)
    \/ \E e \in ApiErrors : CallRaises(e)
    \/ ExecuteBlock
    \/ SkipBlock
    \/ \E response \in FollowUpResponses : FollowUpReturns(response)
    \/ QueryGetSources
    \/ QueryResetSources
    \/ QueryAddExchange

Next ==
    \/ \E query \in Queries : Query(query)
    \/ TurnStep

Spec == Init /\ [][Next]_vars

\* the web framework runs a request's handler to its end
FairSpec == Spec /\ WF_vars(TurnStep)

\* the tools and tool manager a direct caller of generate_response passes:
\* neither, or the manager and its definitions
GenerateArgs ==
    {[offered |-> None, tool_manager |-> FALSE],
     [offered |-> Some(get_tool_definitions(tools)), tool_manager |-> TRUE]}

\* generate_response called directly, as the generator's tests call it
GeneratorNext ==
    \/ \E query \in Queries, args \in GenerateArgs :
          generate_response(query, args.offered, args.tool_manager)
    \/ \E response \in FirstResponses : FirstCallReturns(response)
    \/ \E e \in ApiErrors : CallRaises(e)
    \/ ExecuteBlock
    \/ SkipBlock
    \/ \E response \in FollowUpResponses : FollowUpReturns(response)

GeneratorSpec == Init /\ [][GeneratorNext]_vars

---------------------------------------------------------------------------
(* The HTTP endpoints, and RAGSystem.query called for a session.  Here the *)
(* generator is a collaborator, as it is in the tests of RAGSystem: one    *)
(* generate_response call returns a text or raises.                        *)

\* the session ids a caller supplies: none, an empty one, one of its own
SuppliedSessionIds == {None, Some(""), Some("test-session-123")}

\* QueryRequest bodies
QueryRequests == [query : {"What is machine learning?"},
                  session_id : SuppliedSessionIds]

\* the texts generate_response returns
Answers == {"Test answer", "AI response with history"}

\* exceptions and their str()
Exception(message) == [type |-> "Exception", message |-> message]

str(e) == e.message

\* a Python str among the raw sources
PyStr(text) == [str |-> text]

\* isinstance(source, dict)
isinstance_dict(source) == "text" \in DOMAIN source

\* the sources the tools record while generate_response runs, if any:
\* objects as the search tool makes them, an object without a link key,
\* and plain strings, the legacy format
RecordedDuringGenerate ==
    {<<>>,
     <<[text |-> "Test source", link |-> None]>>,
     <<[text |-> "Source with link", link |-> Some("https://example.com")],
       PyStr("Legacy source text"),
       [text |-> "Test source"]>>}

\* what rag_system.get_course_analytics answers
AnalyticsOutcomes ==
    { [kind |-> "return", total_courses |-> 2,
       course_titles |-> <<"Test Course 1", "Test Course 2">>],
      [kind |-> "return", total_courses |-> 0, course_titles |-> <<>>],
      [kind |-> "raise", exception |-> Exception("Analytics error")] }

\* the prompt query builds around the user's question
prompt(query) == "Answer this question about course materials: " \o query

\* a handler that asks for a new session whatever the request carries
handler_session_AlwaysNew(sm, supplied) ==
    LET made == create_session(sm)
    IN [session_id |-> made.session_id,
        session_manager |-> made.session_manager, created |-> 1]

\* query_documents: session_id = request.session_id, and create_session()
\* "if not session_id"
handler_session(sm, supplied) ==
    IF ~TruthyStr(supplied)
    THEN LET made == create_session(sm)
         IN [session_id |-> made.session_id,
             session_manager |-> made.session_manager, created |-> 1]
    ELSE [session_id |-> supplied[1], session_manager |-> sm, created |-> 0]

\* a conversion that keeps the text of a source and forgets its link
Source_TextOnly(source) ==
    [text |-> IF isinstance_dict(source) THEN source.text ELSE source.str,
     link |-> None]

\* Source(text=source["text"], link=source.get("link")) for a dict,
\* Source(text=str(source), link=None) otherwise
Source(source) ==
    IF isinstance_dict(source)
    THEN [text |-> source.text,
          link |-> IF "link" \in DOMAIN source THEN source.link ELSE None]
    ELSE [text |-> source.str, link |-> None]

\* a handler that hides the exception's message from the client
http_error_Generic(e) ==
    [status_code |-> 500, detail |-> Some("Internal Server Error")]

\* raise HTTPException(status_code=500, detail=str(e))
http_error(e) == [status_code |-> 500, detail |-> Some(str(e))]

\* POST /api/query arrives: query_documents up to its call of
\* rag_system.query(request.query, session_id)
query_documents(request) ==
    /\ pc \in {"idle", "done", "raised"}
    /\ ~http.pending
    /\ TruthyStr(request.session_id)
          \/ session_manager.session_counter < MaxSessions
    /\ LET h == handler_session(session_manager, request.session_id)
       IN /\ session_manager' = h.session_manager
          /\ http' = [NoRequest EXCEPT !.endpoint = "POST /api/query",
                                       !.request = Some(request),
                                       !.session_id = Some(h.session_id),
                                       !.created = h.created,
                                       !.pending = TRUE]
          /\ turn' = [Idle EXCEPT !.query = Some(request.query),
                                  !.session_id = Some(h.session_id)]
    /\ pc' = "get_history"
    /\ UNCHANGED <<tools, last_sources, call>>

\* rag_system.query(query, session_id) is called directly
QuerySession(query, session_id) ==
    /\ pc \in {"idle", "done", "raised"}
    /\ ~http.pending
    /\ pc' = "get_history"
    /\ turn' = [Idle EXCEPT !.query = Some(query), !.session_id = session_id]
    /\ http' = NoRequest
    /\ UNCHANGED <<tools, last_sources, call, session_manager>>

\* query: if session_id: history = get_conversation_history(session_id)
QueryGetHistory ==
    /\ pc = "get_history"
    /\ pc' = "generate"
    /\ turn' = [turn EXCEPT !.history =
                   IF TruthyStr(turn.session_id)
                   THEN get_conversation_history(session_manager,
                                                 turn.session_id[1])
                   ELSE None]
    /\ UNCHANGED <<tools, last_sources, call, session_manager, http>>

\* query: generate_response(query=prompt, conversation_history=history, ...)
\* returns a text; the tools it ran may have recorded sources
GenerateReturns(text, recorded) ==
    /\ pc = "generate"
    /\ pc' = "get_sources"
    /\ turn' = [turn EXCEPT
          !.generated = Append(@, [query |-> prompt(turn.query[1]),
                                   conversation_history |-> turn.history]),
          !.answer = Some(text)]
    /\ last_sources' = IF recorded = <<>> THEN last_sources
                       ELSE [last_sources EXCEPT ![CourseSearchTool] = recorded]
    /\ UNCHANGED <<tools, call, session_manager, http>>

\* a query that records the failed question, with the error as its answer
GenerateRaises_Recorded(e) ==
    /\ pc = "generate"
    /\ pc' = "raised"
    /\ turn' = [turn EXCEPT
          !.generated = Append(@, [query |-> prompt(turn.query[1]),
                                   conversation_history |-> turn.history]),
          !.api_error = Some(e),
          !.error = Some(propagate(e))]
    /\ session_manager' =
          IF TruthyStr(turn.session_id)
          THEN add_exchange(session_manager, turn.session_id[1],
                            turn.query[1], e)
          ELSE session_manager
    /\ UNCHANGED <<tools, last_sources, call, http>>

\* generate_response raises: query does not catch it
GenerateRaises(e) ==
    /\ pc = "generate"
    /\ pc' = "raised"
    /\ turn' = [turn EXCEPT
          !.generated = Append(@, [query |-> prompt(turn.query[1]),
                                   conversation_history |-> turn.history]),
          !.api_error = Some(e),
          !.error = Some(propagate(e))]
    /\ UNCHANGED <<tools, last_sources, call, session_manager, http>>

\* query_documents after rag_system.query: the QueryResponse, or the
\* HTTPException for the exception caught
query_documents_responds ==
    /\ http.pending
    /\ pc \in {"done", "raised"}
    /\ IF pc = "done"
       THEN http' = [http EXCEPT
               !.pending = FALSE,
               !.status_code = 200,
               !.response =
                  Some([answer |-> turn.answer[1],
                        sources |-> [i \in 1..Len(turn.sources) |->
                                        Source(turn.sources[i])],
                        session_id |-> http.session_id[1]])]
       ELSE LET e == Exception(turn.error[1])
            IN http' = [http EXCEPT
                  !.pending = FALSE,
                  !.raised = Some(e),
                  !.status_code = http_error(e).status_code,
                  !.detail = http_error(e).detail]
    /\ UNCHANGED <<tools, last_sources, call, pc, turn, session_manager>>

\* GET /api/courses: get_course_stats
get_course_stats(analytics) ==
    /\ pc \in {"idle", "done", "raised"}
    /\ ~http.pending
    /\ IF analytics.kind = "return"
       THEN http' = [NoRequest EXCEPT
               !.endpoint = "GET /api/courses",
               !.status_code = 200,
               !.response =
                  Some([total_courses |-> analytics.total_courses,
                        course_titles |-> analytics.course_titles])]
       ELSE http' = [NoRequest EXCEPT
               !.endpoint = "GET /api/courses",
               !.raised = Some(analytics.exception),
               !.status_code = http_error(analytics.exception).status_code,
               !.detail = http_error(analytics.exception).detail]
    /\ UNCHANGED <<tools, last_sources, call, pc, turn, session_manager>>

\* one step of a running request or query
ApiStep ==
    \/ QueryGetHistory
    \/ \E text \in Answers, recorded \in RecordedDuringGenerate :
          GenerateReturns(text, recorded)
    \/ \E e \in ApiErrors : GenerateRaises(e)
    \/ QueryGetSources
    \/ QueryResetSources
    \/ QueryAddExchange
    \/ query_documents_responds

ApiNext ==
    \/ \E request \in QueryRequests : query_documents(request)
    \/ \E query \in Queries, session_id \in {None, Some("test-session-123")} :
          QuerySession(query, session_id)
    \/ \E analytics \in AnalyticsOutcomes : get_course_stats(analytics)
    \/ ApiStep

ApiSpec == Init /\ [][ApiNext]_vars

---------------------------------------------------------------------------
(* Two queries handled at the same time by two threads, against the one    *)
(* tool manager and its tool instances.  In this specification pc and turn *)
(* hold one value per thread.  A step is one call on the tool manager.     *)

Threads == {1, 2}

\* a tool manager whose callers take a lock from the search to the reset
may_proceed_Locked(pcs, p) ==
    \A q \in Threads \ {p} : pcs[q] \notin {"get_sources", "reset_sources"}

\* whether thread p may make its next call on the tool manager, given where
\* the threads are: nothing in the tools or the manager makes a caller wait
may_proceed(pcs, p) == TRUE

RaceInit ==
    /\ tools = register_tool(register_tool(<<>>, CourseSearchTool), CourseOutlineTool)
    /\ last_sources = [t \in {CourseSearchTool} |-> <<>>]
    /\ call = [op |-> "init"]
    /\ pc = [p \in Threads |-> "idle"]
    /\ turn = [p \in Threads |-> Idle]
    /\ session_manager = NoSessions
    /\ http = NoRequest

\* thread p starts rag_system.query(query)
ThreadQuery(p, query) ==
    /\ pc[p] \in {"idle", "done"}
    /\ pc' = [pc EXCEPT ![p] = "generate"]
    /\ turn' = [turn EXCEPT ![p] = [Idle EXCEPT !.query = Some(query)]]
    /\ UNCHANGED <<tools, last_sources, call, session_manager, http>>

\* the generator of thread p runs the search tool the model asked for
ThreadSearch(p, store) ==
    /\ pc[p] = "generate"
    /\ may_proceed(pc, p)
    /\ LET kwargs == [query |-> turn[p].query, course_name |-> None,
                      lesson_number |-> None]
           r == execute_tool(tools, last_sources, "search_course_content",
                             kwargs, store)
       IN /\ last_sources' = r.last_sources
          /\ turn' = [turn EXCEPT ![p].searches = Append(@, store.results),
                                  ![p].answer = Some("According to the course, ...")]
    /\ pc' = [pc EXCEPT ![p] = "get_sources"]
    /\ UNCHANGED <<tools, call, session_manager, http>>

\* the generator of thread p answers without running a tool
ThreadAnswers(p) ==
    /\ pc[p] = "generate"
    /\ pc' = [pc EXCEPT ![p] = "get_sources"]
    /\ turn' = [turn EXCEPT ![p].answer = Some("MCP is a protocol.")]
    /\ UNCHANGED <<tools, last_sources, call, session_manager, http>>

\* thread p: sources = self.tool_manager.get_last_sources()
ThreadGetSources(p) ==
    /\ pc[p] = "get_sources"
    /\ may_proceed(pc, p)
    /\ pc' = [pc EXCEPT ![p] = "reset_sources"]
    /\ turn' = [turn EXCEPT ![p].sources = get_last_sources(tools, last_sources)]
    /\ UNCHANGED <<tools, last_sources, call, session_manager, http>>

\* thread p: self.tool_manager.reset_sources(), then return
ThreadResetSources(p) ==
    /\ pc[p] = "reset_sources"
    /\ may_proceed(pc, p)
    /\ pc' = [pc EXCEPT ![p] = "done"]
    /\ last_sources' = reset_sources(tools, last_sources)
    /\ UNCHANGED <<tools, call, turn, session_manager, http>>

RaceNext ==
    \E p \in Threads :
        \/ \E query \in Queries : ThreadQuery(p, query)
        \/ \E store \in TurnStoreAnswersFor("search_course_content") :
              ThreadSearch(p, store)
        \/ ThreadAnswers(p)
        \/ ThreadGetSources(p)
        \/ ThreadResetSources(p)

RaceSpec == RaceInit /\ [][RaceNext]_vars

---------------------------------------------------------------------------
(* The tool manager as a registry of any tools: the system's two tools and *)
(* the tests' doubles, registered in any order and re-registered           *)

ManagedTools == ToolInstances \cup TestDoubles \cup UnnamedTools

\* the calls made through the manager: searches that return at most one
\* hit, a call of a double, and a call of a name nobody registered
ManagerCalls ==
    {[tool_name |-> "search_course_content",
      kwargs |-> [query |-> Some("what is MCP"), course_name |-> None,
                  lesson_number |-> None],
      store |-> a] : a \in TurnStoreAnswersFor("search_course_content")}
    \cup
    {[tool_name |-> n,
      kwargs |-> [query |-> Some("what is MCP"), course_name |-> None,
                  lesson_number |-> None],
      store |-> [results |-> NoResults, resolved |-> None,
                 catalog |-> [kind |-> "none"]]] :
        n \in {"search_tool", "nonexistent_tool"}}

\* ToolManager() and the tool instances as constructed, nothing registered
ManagerInit ==
    /\ tools = <<>>
    /\ last_sources = [t \in {CourseSearchTool} \cup TestDoubles |->
                          IF t = CourseSearchTool THEN <<>> ELSE MockSources(t)]
    /\ call = [op |-> "init"]
    /\ pc = "idle"
    /\ turn = Idle
    /\ session_manager = NoSessions
    /\ http = NoRequest

ManagerNext ==
    \/ \E tool \in ManagedTools : RegisterTool(tool)
    \/ \E c \in ManagerCalls : ExecuteTool(c.tool_name, c.kwargs, c.store)
    \/ GetLastSources
    \/ ResetSources

ManagerSpec == ManagerInit /\ [][ManagerNext]_vars

---------------------------------------------------------------------------
(* Properties of the tools, checked under ToolSpec *)

\* the last call was an execute_tool that ran CourseSearchTool.execute
SearchCall ==
    /\ call.op = "execute_tool"
    /\ call.invoked # <<>>
    /\ call.invoked[1].tool = CourseSearchTool

\* ... and it returned formatted hits
FormattedCall ==
    /\ SearchCall
    /\ call.store.results.error = None
    /\ call.store.results.documents # <<>>

\* C1: when the store's result carries an error, CourseSearchTool.execute
\* returns exactly that error string, whatever the query, the filters and
\* the documents of the result are.
C1_ErrorReturnedVerbatim ==
    (SearchCall /\ call.store.results.error # None)
        => call.ret = call.store.results.error[1]

C1_Witness ==
    /\ SearchCall
    /\ call.store.results.error # None
    /\ call.ret = call.store.results.error[1]
    /\ call.store.results.documents = <<>>
    /\ call.kwargs.course_name # None
    /\ call.kwargs.lesson_number # None

\* C2: with no error and no documents, execute returns "No relevant content
\* found", then " in course '<course_name>'" for a supplied course filter,
\* then " in lesson <lesson_number>" for a supplied lesson filter (every
\* integer), then ".".
C2_NoContentNamesEveryFilter ==
    (SearchCall /\ call.store.results.error = None
                /\ call.store.results.documents = <<>>)
        => call.ret =
              "No relevant content found"
              \o (IF call.kwargs.course_name # None
                  THEN " in course '" \o call.kwargs.course_name[1] \o "'"
                  ELSE "")
              \o (IF call.kwargs.lesson_number # None
                  THEN " in lesson " \o ToString(call.kwargs.lesson_number[1])
                  ELSE "")
              \o "."

\* C3: after an execute that returned formatted hits, last_sources holds one
\* source per returned document, in document order, the i-th built from the
\* i-th document's metadata.
C3_OneSourcePerDocument ==
    FormattedCall =>
        LET docs == call.store.results.documents
            metas == call.store.results.metadata
            sources == last_sources[CourseSearchTool]
        IN /\ Len(sources) = Len(docs)
           /\ \A i \in 1..Len(docs) : sources[i] = source_obj(metas[i])

C3_Witness ==
    /\ FormattedCall
    /\ Len(call.store.results.documents) = 2
    /\ Len(last_sources[CourseSearchTool]) = 2
    /\ last_sources[CourseSearchTool][1] # last_sources[CourseSearchTool][2]
    /\ \E i \in 1..2 : call.store.results.metadata[i].lesson_link = None

\* C4: after any execute, last_sources describes that call only: after a
\* call that returned an error or a "No relevant content found" message,
\* last_sources is empty, whatever searches came before.
C4_SourcesOfThisCallOnly ==
    (SearchCall /\ ~FormattedCall) => last_sources[CourseSearchTool] = <<>>

\* C5: execute_tool(name, args) runs the tool registered under that name,
\* once, with the given arguments, and returns its result unchanged; for an
\* unregistered name it runs no tool and returns "Tool '<name>' not found".
C5_DispatchByName ==
    call.op = "execute_tool" =>
        IF \E i \in 1..Len(tools) : tools[i].name = call.tool_name
        THEN \A i \in 1..Len(tools) :
                tools[i].name = call.tool_name =>
                    /\ Len(call.invoked) = 1
                    /\ call.invoked[1].tool = tools[i].tool
                    /\ call.invoked[1].kwargs = call.kwargs
                    /\ call.ret = call.invoked[1].result
        ELSE /\ call.invoked = <<>>
             /\ call.ret = "Tool '" \o call.tool_name \o "' not found"

C5_Witness ==
    /\ call.op = "execute_tool"
    /\ Len(tools) = 2
    /\ tools[2].name = call.tool_name
    /\ Len(call.invoked) = 1
    /\ call.invoked[1].tool = tools[2].tool

\* C17: for results with hits, execute returns one block per hit, in hit
\* order, separated by a blank line; a block is "[<title> - Lesson <n>]" (for
\* every lesson number, 0 included) or "[<title>]" (no lesson number), with
\* "unknown" for a missing title, then a newline, then the document text.
C17_OneBlockPerHit ==
    FormattedCall =>
        LET docs == call.store.results.documents
            metas == call.store.results.metadata
            title(m) == IF m.course_title = None THEN "unknown"
                        ELSE m.course_title[1]
            block(i) ==
                (IF metas[i].lesson_number = None
                 THEN "[" \o title(metas[i]) \o "]"
                 ELSE "[" \o title(metas[i]) \o " - Lesson "
                          \o ToString(metas[i].lesson_number[1]) \o "]")
                \o "\n" \o docs[i]
        IN call.ret =
              IF Len(docs) = 1 THEN block(1)
              ELSE IF Len(docs) = 2 THEN block(1) \o "\n\n" \o block(2)
              ELSE join("\n\n", [i \in 1..Len(docs) |-> block(i)])

C17_Witness ==
    /\ FormattedCall
    /\ Len(call.store.results.documents) = 2
    /\ call.store.results.metadata[1].lesson_number = Some(0)
    /\ call.store.results.metadata[2].course_title = None
    /\ call.ret = "[MCP - Lesson 0]\nWelcome to the course\n\n"
                      \o "[unknown]\nUntitled notes"

\* the last call was an execute_tool that ran CourseOutlineTool.execute
OutlineCall ==
    /\ call.op = "execute_tool"
    /\ call.invoked # <<>>
    /\ call.invoked[1].tool = CourseOutlineTool

\* text is the outline of a catalog entry: the title line, the link line
\* exactly when the entry has a link, and then either the lesson count and
\* one line per lesson, each lesson once and in ascending lesson-number
\* order, or the statement that there are no lessons
IsOutlineOf(text, entry) ==
    LET n == Len(entry.lessons)
        top == "Course: " \o entry.title
               \o (IF entry.course_link # None
                   THEN "\nCourse Link: " \o entry.course_link[1] ELSE "")
        line(l) == "\n  Lesson " \o ToString(l.lesson_number) \o ": "
                   \o l.lesson_title
    IN IF n = 0
       THEN text = top \o "\n\nNo lessons found for this course."
       ELSE \E order \in {f \in [1..n -> 1..n] :
                             \A i, j \in 1..n : f[i] = f[j] => i = j} :
               /\ \A i, j \in 1..n :
                     i < j => entry.lessons[order[i]].lesson_number
                                 <= entry.lessons[order[j]].lesson_number
               /\ text = top \o "\n\nLessons (" \o ToString(n) \o " total):"
                            \o (IF n = 1 THEN line(entry.lessons[order[1]])
                                ELSE line(entry.lessons[order[1]])
                                     \o line(entry.lessons[order[2]]))

\* C18 as stated: execute returns "No course found matching '<course_name>'"
\* when the name resolves to no course, and the outline of the course
\* whenever it resolves.
C18_OutlineWheneverResolved ==
    OutlineCall =>
        IF call.store.resolved = None
        THEN call.ret = "No course found matching '"
                           \o call.kwargs.course_name[1] \o "'"
        ELSE /\ call.store.catalog.kind = "entry"
             /\ IsOutlineOf(call.ret, call.store.catalog)

\* C18, amended: the outline is returned when the name resolves and the
\* catalog holds an entry for the resolved title; a resolved title without a
\* catalog entry gives "No course metadata found for '<title>'", and an
\* exception while reading the entry gives "Error retrieving course
\* outline: <message>".
C18_OutlineOfCatalogEntry ==
    OutlineCall =>
        IF call.store.resolved = None
        THEN call.ret = "No course found matching '"
                           \o call.kwargs.course_name[1] \o "'"
        ELSE IF call.store.catalog.kind = "entry"
        THEN IsOutlineOf(call.ret, call.store.catalog)
        ELSE IF call.store.catalog.kind = "none"
        THEN call.ret = "No course metadata found for '"
                           \o call.store.resolved[1] \o "'"
        ELSE call.ret = "Error retrieving course outline: "
                           \o call.store.catalog.message

C18_Witness ==
    /\ OutlineCall
    /\ call.store.resolved # None
    /\ call.store.catalog.kind = "entry"
    /\ Len(call.store.catalog.lessons) = 2
    /\ call.store.catalog.lessons[1].lesson_number
          > call.store.catalog.lessons[2].lesson_number
    /\ IsOutlineOf(call.ret, call.store.catalog)

\* C24: every recorded source has exactly a text and a link field; the text
\* in brackets is the header of the hit's block in the returned text, it is
\* the course title followed by " - Lesson <n>" exactly when the hit has a
\* lesson number; the link is the hit's lesson link when that is a non-empty
\* string and None otherwise.
C24_SourceTextAndLink ==
    FormattedCall =>
        LET docs == call.store.results.documents
            metas == call.store.results.metadata
            sources == last_sources[CourseSearchTool]
            title(m) == IF m.course_title = None THEN "unknown"
                        ELSE m.course_title[1]
        IN /\ Len(sources) = Len(docs)
           /\ call.ret = join("\n\n", [i \in 1..Len(docs) |->
                             "[" \o sources[i].text \o "]\n" \o docs[i]])
           /\ \A i \in 1..Len(sources) :
                 /\ DOMAIN sources[i] = {"text", "link"}
                 /\ sources[i].text =
                       IF metas[i].lesson_number = None THEN title(metas[i])
                       ELSE title(metas[i]) \o " - Lesson "
                                \o ToString(metas[i].lesson_number[1])
                 /\ sources[i].link =
                       IF metas[i].lesson_link # None
                             /\ metas[i].lesson_link[1] # ""
                       THEN metas[i].lesson_link
                       ELSE None

C24_Witness ==
    /\ FormattedCall
    /\ Len(call.store.results.documents) = 2
    /\ call.store.results.metadata[1].lesson_link = Some("")
    /\ call.store.results.metadata[2].lesson_link = Some("http://mcp/1")
    /\ last_sources[CourseSearchTool] =
          <<[text |-> "unknown", link |-> None],
            [text |-> "MCP - Lesson 1", link |-> Some("http://mcp/1")]>>

\* C23: a CourseSearchTool.execute call makes exactly one store.search
\* call, with the query, the course name and the lesson number it was
\* given, an omitted filter as None and lesson 0 as 0; the SearchResults it
\* got back is afterwards as the store returned it.
C23_OneSearchArgumentsUnchanged ==
    SearchCall =>
        /\ Len(call.invoked[1].searched) = 1
        /\ call.invoked[1].searched[1].query = call.kwargs.query
        /\ call.invoked[1].searched[1].course_name = call.kwargs.course_name
        /\ call.invoked[1].searched[1].lesson_number = call.kwargs.lesson_number
        /\ call.invoked[1].results = call.store.results

C23_Witness ==
    /\ SearchCall
    /\ call.kwargs.course_name = None
    /\ call.kwargs.lesson_number = Some(0)
    /\ call.invoked[1].searched =
          <<[query |-> Some("what is MCP"), course_name |-> None,
             lesson_number |-> Some(0)]>>
    /\ Len(call.store.results.documents) = 2

\* C29: once the name has resolved, CourseOutlineTool.execute ends by
\* returning a string and no exception leaves it, whatever the catalog
\* does: "No course metadata found for '<title>'" when the catalog holds
\* nothing for the title, and "Error retrieving course outline: <message>"
\* when fetching or parsing the entry raised.
C29_OutlineFailuresReturned ==
    (OutlineCall /\ call.store.resolved # None) =>
        /\ call.invoked[1].raised = None
        /\ call.ret = call.invoked[1].result
        /\ call.ret # ""
        /\ call.store.catalog.kind = "none" =>
              call.ret = "No course metadata found for '"
                            \o call.store.resolved[1] \o "'"
        /\ call.store.catalog.kind = "raise" =>
              call.ret = "Error retrieving course outline: "
                            \o call.store.catalog.message

C29_Witness ==
    /\ OutlineCall
    /\ call.store.resolved = Some("MCP: Build Rich-Context AI Apps")
    /\ call.store.catalog.kind = "raise"
    /\ call.invoked[1].raised = None
    /\ call.ret = "Error retrieving course outline: "
                      \o "Expecting value: line 1 column 1 (char 0)"

---------------------------------------------------------------------------
(* Properties of the query turn, checked under Spec and FairSpec *)

\* generate_response has returned its text to query
Returned == pc \in {"get_sources", "reset_sources", "add_exchange", "done"}

\* the tool_use blocks of the first response, in order
Requested ==
    SelectSeq(turn.first[1].content, LAMBDA b : b.type = "tool_use")

\* C6: there is a second model call iff the first response's stop reason
\* is a tool request: any other first response is returned after exactly
\* one call, and a tool request is followed by exactly one further call,
\* whose text is the answer returned.
C6_SecondCallIffToolRequest ==
    /\ turn.calls >= 2 =>
          turn.first # None /\ turn.first[1].stop_reason = "tool_use"
    /\ (turn.first # None /\ (Returned \/ pc = "raised")) =>
          IF turn.first[1].stop_reason = "tool_use"
          THEN /\ turn.calls = 2
               /\ Returned =>
                     /\ turn.second # None
                     /\ turn.answer = Some(turn.second[1].content[1].text)
          ELSE /\ turn.calls = 1
               /\ Returned
               /\ turn.answer = Some(turn.first[1].content[1].text)

C6_Witness ==
    /\ pc = "done"
    /\ turn.first[1].stop_reason = "tool_use"
    /\ turn.calls = 2
    /\ turn.answer = Some(turn.second[1].content[1].text)
    /\ turn.answer # Some(turn.first[1].content[1].text)

\* C7: a generate_response call makes at most two model calls and always
\* ends; when the follow-up response itself asks for a tool, no tool is run
\* for it and no third call is made.
C7_AtMostTwoCallsAndTerminates ==
    /\ [](/\ turn.calls <= 2
          /\ turn.second # None =>
                /\ pc \notin {"tools", "follow_up"}
                /\ Len(turn.executions) = Len(Requested)
                /\ \A k \in 1..Len(turn.executions) : turn.executions[k].calls = 1)
    /\ (pc = "first_call") ~> (pc \in {"done", "raised"})

C7_Witness ==
    /\ pc = "done"
    /\ turn.second # None
    /\ turn.second[1].stop_reason = "tool_use"
    /\ turn.calls = 2
    /\ Len(turn.executions) = 1

\* C8: when the first response asks for tools, every tool_use block is
\* executed exactly once, in block order, by its name and with its
\* arguments, after the first model call and before the follow-up call,
\* whose messages carry one tool result per requested block.
C8_EveryRequestedToolRunInOrder ==
    /\ \A k \in 1..Len(turn.executions) : turn.executions[k].calls = 1
    /\ (pc = "follow_up" \/ turn.sent # None) =>
          LET req == Requested
              exe == turn.executions
          IN /\ Len(exe) = Len(req)
             /\ \A k \in 1..Len(req) :
                   /\ exe[k].name = req[k].name
                   /\ exe[k].input = req[k].input[1]
                   /\ \A t \in ToolInstances :
                         get_tool_definition(t).name = Some(req[k].name) =>
                            /\ Len(exe[k].invoked) = 1
                            /\ exe[k].invoked[1].tool = t
                            /\ exe[k].invoked[1].kwargs = req[k].input[1]
             /\ turn.sent # None =>
                   /\ Len(turn.sent[1]) = Len(req)
                   /\ \A k \in 1..Len(req) :
                         turn.sent[1][k].content = exe[k].ret

C8_Witness ==
    /\ pc = "done"
    /\ turn.sent # None
    /\ Len(Requested) = 2
    /\ Requested[1].name = "get_course_outline"
    /\ Requested[2].name = "search_course_content"
    /\ Len(turn.sent[1]) = 2
    /\ turn.executions[1].invoked[1].tool = CourseOutlineTool
    /\ turn.executions[2].invoked[1].tool = CourseSearchTool

\* C9: a failing model call is raised as it is and not retried: a failure
\* of the first call ends the turn after one call and no tool execution, a
\* failure of the follow-up ends it after two, and query raises the same
\* error.
C9_ErrorsPropagateUnchanged ==
    /\ turn.api_error # None => pc = "raised"
    /\ pc = "raised" =>
          /\ turn.api_error # None
          /\ turn.error = turn.api_error
          /\ turn.answer = None
          /\ IF turn.first = None
             THEN turn.calls = 1 /\ turn.executions = <<>>
             ELSE turn.calls = 2

C9_Witness ==
    /\ pc = "raised"
    /\ turn.first # None
    /\ turn.calls = 2
    /\ turn.executions # <<>>
    /\ turn.error = turn.api_error

\* the sources recorded by the searches of a turn: those of the last search
\* that produced hits, none when no search did
RecordedSources(searches) ==
    LET hits == SelectSeq(searches,
                    LAMBDA r : r.error = None /\ r.documents # <<>>)
    IN IF hits = <<>> THEN <<>>
       ELSE LET metas == hits[Len(hits)].metadata
            IN [k \in 1..Len(metas) |-> source_obj(metas[k])]

\* C10: the sources returned with an answer are exactly those recorded by
\* the searches of that query turn: empty when no search produced hits, and
\* never a source recorded during an earlier query, failed or not.
C10_SourcesOfThisTurnOnly ==
    pc = "done" => turn.sources = RecordedSources(turn.searches)

---------------------------------------------------------------------------
(* Properties of the registry, checked under ManagerSpec *)

\* the registered tools that hold a source
Holders ==
    {tools[i].tool : i \in {j \in 1..Len(tools) :
        /\ hasattr_last_sources(last_sources, tools[j].tool)
        /\ last_sources[tools[j].tool] # <<>>}}

\* C11: get_last_sources aggregates over all registered tools: every source
\* of every registered tool that holds sources is in the list returned, and
\* the list is empty only when no registered tool holds a source.
C11_SourcesOfEveryTool ==
    call.op = "get_last_sources" =>
        /\ \A t \in Holders : \A k \in 1..Len(last_sources[t]) :
              \E m \in 1..Len(call.ret) : call.ret[m] = last_sources[t][k]
        /\ (call.ret = <<>>) <=> (Holders = {})

\* the registered tools that have a last_sources attribute
Trackers ==
    {tools[i].tool : i \in {j \in 1..Len(tools) :
        hasattr_last_sources(last_sources, tools[j].tool)}}

\* C12: a reset_sources call leaves every registered source-tracking tool
\* with an empty last_sources, so that get_last_sources returns the empty
\* list, whatever was executed before; it leaves the registry and the
\* definitions it lists as they were; and a second reset changes nothing.
C12_ResetClearsEveryTool ==
    [][call'.op = "reset_sources" =>
          /\ \A i \in 1..Len(tools) :
                hasattr_last_sources(last_sources, tools[i].tool)
                    => last_sources'[tools[i].tool] = <<>>
          /\ get_last_sources(tools', last_sources') = <<>>
          /\ tools' = tools
          /\ get_tool_definitions(tools') = get_tool_definitions(tools)
          /\ reset_sources(tools', last_sources') = last_sources']_vars

C12_Witness ==
    /\ call.op = "reset_sources"
    /\ Cardinality(Trackers) = 2
    /\ \A t \in Trackers : last_sources[t] = <<>>
    /\ \E t \in TestDoubles \ Trackers : last_sources[t] # <<>>

\* the names under which a tool is registered
RegisteredNames(reg) == {reg[i].name : i \in 1..Len(reg)}

\* C20: after a register_tool call that returned, the registry lists
\* exactly one definition per distinct name registered so far, each under
\* its own name; the name
\* just registered maps to the tool just given; and every other name maps
\* to the tool it mapped to before.
C20_RegistryKeyedByName ==
    [][(call'.op = "register_tool" /\ call'.raised = None) =>
          LET tool == call'.tool
              tool_name == get_tool_definition(tool).name[1]
              defs == get_tool_definitions(tools')
          IN /\ Len(defs) = Len(tools')
             /\ \A i \in 1..Len(defs) : defs[i].name = Some(tools'[i].name)
             /\ \A i, j \in 1..Len(defs) : defs[i].name = defs[j].name => i = j
             /\ RegisteredNames(tools') = RegisteredNames(tools) \cup {tool_name}
             /\ lookup(tools', tool_name) = tool
             /\ \A other \in RegisteredNames(tools) \ {tool_name} :
                   lookup(tools', other) = lookup(tools, other)]_vars

C20_Witness ==
    /\ call.op = "register_tool"
    /\ call.tool = MockSearchTool2
    /\ Len(tools) = 3
    /\ tools[1].tool = MockSearchTool2
    /\ last_sources[MockSearchTool] = <<>>

\* C26: register_tool raises ValueError for a tool whose definition has no
\* name or an empty one, and the registry and the tools' sources are then
\* as before the call; every entry of the registry is kept under a
\* non-empty name, the one its tool's definition reports.
C26_NamelessToolRejected ==
    /\ [](\A i \in 1..Len(tools) :
             /\ tools[i].name # ""
             /\ get_tool_definition(tools[i].tool).name = Some(tools[i].name))
    /\ [][(/\ call'.op = "register_tool"
           /\ \/ get_tool_definition(call'.tool).name = None
              \/ get_tool_definition(call'.tool).name = Some("")) =>
             /\ call'.raised = Some("Tool must have a 'name' in its definition")
             /\ tools' = tools
             /\ last_sources' = last_sources]_vars

C26_Witness ==
    /\ call.op = "register_tool"
    /\ call.tool = EmptyNameTool
    /\ call.raised # None
    /\ Len(tools) = 3
    /\ \A i \in 1..Len(tools) : tools[i].tool \notin UnnamedTools

\* C25: an execute_tool call whose name is not registered leaves the
\* registry, the definitions of the registered tools and every tool's
\* last_sources as they were before the call, and runs no tool.
C25_UnknownNameChangesNothing ==
    [][(call'.op = "execute_tool" /\ ~registered(tools, call'.tool_name)) =>
          /\ tools' = tools
          /\ get_tool_definitions(tools') = get_tool_definitions(tools)
          /\ \A t \in DOMAIN last_sources : last_sources'[t] = last_sources[t]
          /\ DOMAIN last_sources' = DOMAIN last_sources
          /\ call'.invoked = <<>>]_vars

C25_Witness ==
    /\ call.op = "execute_tool"
    /\ call.tool_name = "nonexistent_tool"
    /\ call.ret = "Tool 'nonexistent_tool' not found"
    /\ Len(tools) = 3
    /\ last_sources[CourseSearchTool] # <<>>
    /\ last_sources[MockSearchTool] # <<>>

---------------------------------------------------------------------------
(* Properties of the endpoints and of the sessions, checked under ApiSpec *)

\* the history kept for a session id, empty when there is none
HistoryOf(sm, session_id) ==
    IF session_id \in DOMAIN sm.sessions THEN sm.sessions[session_id] ELSE <<>>

\* C13: a history never holds more than MaxHistory exchanges; the turn that
\* completes on a session appends exactly one exchange, as the last one;
\* when the history was full the oldest exchange is dropped and the others
\* keep their order; no other session's history changes.
C13_HistoryBounded ==
    /\ [](\A s \in DOMAIN session_manager.sessions :
             Len(session_manager.sessions[s]) <= MaxHistory)
    /\ [][(pc = "add_exchange" /\ pc' = "done" /\ turn.session_id # None) =>
             LET sid == turn.session_id[1]
                 old == HistoryOf(session_manager, sid)
                 new == HistoryOf(session_manager', sid)
                 kept == IF Len(old) < MaxHistory THEN old ELSE Tail(old)
             IN /\ Len(new) = Len(kept) + 1
                /\ \A i \in 1..Len(kept) : new[i] = kept[i]
                /\ new[Len(new)] = [user |-> turn.query[1],
                                    assistant |-> turn.answer[1]]
                /\ \A s \in DOMAIN session_manager.sessions \ {sid} :
                      HistoryOf(session_manager', s)
                         = HistoryOf(session_manager, s)]_vars

\* a turn has completed on a session whose history was full and held two
\* different exchanges first: the oldest is gone, the next is now first
C13_Witness ==
    /\ pc = "done"
    /\ turn.session_id # None
    /\ LET new == HistoryOf(session_manager, turn.session_id[1])
       IN /\ Len(new) = MaxHistory
          /\ \E dropped \in {[user |-> turn.query[1], assistant |-> a] :
                                 a \in Answers} :
                /\ dropped # new[1]
                /\ turn.history =
                      get_conversation_history(
                         [session_manager EXCEPT !.sessions =
                             Put(@, turn.session_id[1],
                                 <<dropped>> \o SubSeq(new, 1, Len(new) - 1))],
                         turn.session_id[1])

\* the request handled is a POST /api/query that has been answered
QueryAnswered ==
    /\ http.endpoint = "POST /api/query"
    /\ ~http.pending

\* C14 as stated: POST /api/query creates a session exactly when the
\* request carries no session id, and a successful response carries the
\* session id of the request whenever the request carries one.
C14_SessionCreatedIffNoId ==
    http.endpoint = "POST /api/query" =>
        /\ http.created = 1 <=> http.request[1].session_id = None
        /\ (QueryAnswered /\ http.status_code = 200
                /\ http.request[1].session_id # None)
              => http.response[1].session_id = http.request[1].session_id[1]

\* C14, amended: the handler creates a session exactly when the request
\* carries no session id or an empty one; the session manager is left as
\* it is by a request that carries a non-empty id, and gains exactly one
\* session otherwise; a successful response carries the non-empty id of
\* the request, or else the id of the session created.
C14_SessionCreatedIffNoneOrEmpty ==
    /\ [](http.endpoint = "POST /api/query" =>
             LET supplied == http.request[1].session_id
                 absent == supplied = None \/ supplied = Some("")
             IN /\ http.created = 1 <=> absent
                /\ http.created = 0 <=> ~absent
                /\ ~absent => http.session_id = supplied
                /\ (QueryAnswered /\ http.status_code = 200) =>
                      /\ http.response[1].session_id = http.session_id[1]
                      /\ ~absent =>
                            http.response[1].session_id = supplied[1])
    /\ [][(http'.endpoint = "POST /api/query" /\ http'.pending
                                               /\ ~http.pending) =>
             IF http'.created = 0
             THEN session_manager' = session_manager
             ELSE /\ http'.session_id[1] \notin DOMAIN session_manager.sessions
                  /\ DOMAIN session_manager'.sessions =
                        DOMAIN session_manager.sessions
                           \cup {http'.session_id[1]}
                  /\ session_manager'.session_counter =
                        session_manager.session_counter + 1]_vars

\* the second answered query of a client-chosen session id, answered under
\* that id, no session having been created for it
C14_Witness ==
    /\ QueryAnswered
    /\ http.status_code = 200
    /\ http.request[1].session_id = Some("test-session-123")
    /\ http.response[1].session_id = "test-session-123"
    /\ http.created = 0
    /\ Len(HistoryOf(session_manager, "test-session-123")) = 2
    /\ session_manager.session_counter = 1

\* C15: a request whose processing raised is answered with status 500 and
\* the exception's message as detail, and with no response body; a request
\* answered with 200 raised nothing.  For POST /api/query the exception is
\* the one generate_response raised.
C15_ExceptionsBecome500 ==
    (http.endpoint # "" /\ ~http.pending) =>
        /\ http.raised # None =>
              /\ http.status_code = 500
              /\ http.detail = Some(http.raised[1].message)
              /\ http.response = None
        /\ http.raised = None =>
              /\ http.status_code = 200
              /\ http.response # None
              /\ http.detail = None
        /\ http.endpoint = "POST /api/query" =>
              /\ pc = "raised" <=> http.raised # None
              /\ pc = "raised" => http.detail = turn.api_error
              /\ pc = "done" => http.status_code = 200

C15_Witness ==
    /\ QueryAnswered
    /\ pc = "raised"
    /\ turn.api_error = Some("Connection timeout")
    /\ http.status_code = 500
    /\ http.detail = Some("Connection timeout")

\* the generate_response call of the turn has been made
Generated == pc \in {"get_sources", "reset_sources", "add_exchange", "raised"}

\* C19: the history passed to generate_response is the one the session
\* holds when the turn starts, read before the call; nothing is recorded
\* before the answer is returned; a turn that completes with a session id
\* has made exactly one add_exchange call, for that session, with the
\* user's own query text and the answer returned, and the session's history
\* then ends with that exchange; a turn without a session id passes no
\* history and leaves every session as it was.
C19_HistoryReadThenExchangeAppended ==
    /\ [](/\ pc \in {"get_history", "generate"} =>
                turn.generated = <<>> /\ turn.exchanged = <<>>
          /\ Generated =>
                /\ Len(turn.generated) = 1
                /\ turn.exchanged = <<>>
                /\ turn.generated[1].conversation_history =
                      IF turn.session_id = None THEN None
                      ELSE get_conversation_history(session_manager,
                                                    turn.session_id[1])
          /\ (pc = "done" /\ turn.session_id # None) =>
                /\ turn.exchanged = <<[session_id |-> turn.session_id[1],
                                       user |-> turn.query[1],
                                       assistant |-> turn.answer[1]]>>
                /\ LET h == HistoryOf(session_manager, turn.session_id[1])
                   IN /\ h # <<>>
                      /\ h[Len(h)] = [user |-> turn.query[1],
                                      assistant |-> turn.answer[1]]
          /\ (pc = "done" /\ turn.session_id = None) =>
                turn.exchanged = <<>>)
    /\ [][(pc \notin {"idle", "done", "raised"} /\ turn.session_id = None)
             => session_manager' = session_manager]_vars

C19_Witness ==
    /\ pc = "done"
    /\ http.endpoint = ""
    /\ turn.session_id = Some("test-session-123")
    /\ turn.generated[1].conversation_history # None
    /\ turn.answer = Some("AI response with history")
    /\ Len(turn.exchanged) = 1
    /\ Len(HistoryOf(session_manager, "test-session-123")) = 2
    /\ HistoryOf(session_manager, "test-session-123")[1].assistant
          = "Test answer"

---------------------------------------------------------------------------
(* Properties of concurrent queries, checked under RaceSpec *)

\* C16: nothing guards last_sources: wherever the other thread is, between
\* its search and its reading of the sources or between its reading and its
\* reset, a thread's search, its get_last_sources and its reset_sources can
\* be the next step.
C16_LastSourcesUnguarded ==
    \A p \in Threads :
        /\ pc[p] = "generate" =>
              \A store \in TurnStoreAnswersFor("search_course_content") :
                 ENABLED ThreadSearch(p, store)
        /\ pc[p] = "get_sources" => ENABLED ThreadGetSources(p)
        /\ pc[p] = "reset_sources" => ENABLED ThreadResetSources(p)

\* the race: both threads searched and recorded different sources; thread
\* 1 returned the sources recorded by thread 2's search, and thread 2
\* returned none, its own having been cleared by thread 1's reset
C16_Witness ==
    /\ pc = [p \in Threads |-> "done"]
    /\ RecordedSources(turn[1].searches) # <<>>
    /\ RecordedSources(turn[2].searches) # <<>>
    /\ RecordedSources(turn[1].searches) # RecordedSources(turn[2].searches)
    /\ turn[1].sources = RecordedSources(turn[2].searches)
    /\ turn[2].sources = <<>>

---------------------------------------------------------------------------
(* Properties of generate_response called directly, under GeneratorSpec *)

\* C21: when the stop reason of the first response is not a tool request,
\* no tool is executed and no further model call is made, whether or not
\* tools and a tool manager were passed and whatever blocks the response
\* holds; and the first model request carries the tool definitions exactly
\* when the caller passed them, then the very ones passed.
C21_NoToolWithoutToolRequest ==
    /\ (turn.first # None /\ turn.first[1].stop_reason # "tool_use") =>
          /\ turn.executions = <<>>
          /\ turn.tool_results = <<>>
          /\ turn.calls = 1
          /\ pc \notin {"tools", "follow_up"}
    /\ turn.request # None =>
          /\ turn.request[1].tools # None <=> turn.offered # None
          /\ turn.offered # None => turn.request[1].tools = turn.offered

C21_Witness ==
    /\ pc = "get_sources"
    /\ turn.first = Some(TruncatedResponse)
    /\ turn.tool_manager
    /\ turn.request # None
    /\ turn.request[1].tools = Some(get_tool_definitions(tools))
    /\ turn.executions = <<>>
    /\ turn.answer = Some("Let me look that up.")

---------------------------------------------------------------------------
(* Further properties of the endpoints and the sessions, under ApiSpec *)

\* C22: a successful POST /api/query response holds one source per raw
\* source that rag_system.query returned, in the same order: an object
\* keeps its text and its link, null when it has none or no link key, and
\* a plain string becomes a source with that text and a null link.
C22_OneSourcePerRawSource ==
    (QueryAnswered /\ http.status_code = 200) =>
        LET raw == turn.sources
            out == http.response[1].sources
        IN /\ Len(out) = Len(raw)
           /\ \A i \in 1..Len(raw) :
                 /\ DOMAIN out[i] = {"text", "link"}
                 /\ IF "str" \in DOMAIN raw[i]
                    THEN out[i].text = raw[i].str /\ out[i].link = None
                    ELSE /\ out[i].text = raw[i].text
                         /\ out[i].link = IF "link" \in DOMAIN raw[i]
                                          THEN raw[i].link ELSE None

C22_Witness ==
    /\ QueryAnswered
    /\ http.status_code = 200
    /\ Len(turn.sources) = 3
    /\ http.response[1].sources =
          <<[text |-> "Source with link", link |-> Some("https://example.com")],
            [text |-> "Legacy source text", link |-> None],
            [text |-> "Test source", link |-> None]>>

\* C28: a query in which generate_response raises makes no add_exchange
\* call, and no step of it, from its start to the raise and to the answer
\* of the request it belongs to, changes the history of any session.
C28_FailedQueryAppendsNothing ==
    /\ [](pc = "raised" => turn.exchanged = <<>>)
    /\ [][(pc \in {"get_history", "generate"} \/ pc' = "raised") =>
             /\ \A s \in DOMAIN session_manager'.sessions :
                   HistoryOf(session_manager', s) = HistoryOf(session_manager, s)
             /\ \A s \in DOMAIN session_manager.sessions :
                   HistoryOf(session_manager', s) = HistoryOf(session_manager, s)
          ]_vars

\* a query failed on a session that already held an exchange, and still
\* holds that one alone
C28_Witness ==
    /\ pc = "raised"
    /\ turn.session_id = Some("test-session-123")
    /\ turn.history # None
    /\ turn.error = Some("Connection timeout")
    /\ Len(HistoryOf(session_manager, "test-session-123")) = 1

====
